---- MODULE Spec2Model ----
(***************************************************************************)
(* A model of libaoc: the iterator conversions of convert.rs (TryConvert,  *)
(* Convert, and the array collectors built by convert! / convert_func!).   *)
(*                                                                         *)
(* Every operation is modelled at the granularity of the statements of its *)
(* body.  `slice.iter_mut().zip(source)` is modelled as the two halves of  *)
(* Zip::next: first the destination iterator is advanced, and only when it *)
(* yields a slot is the source iterator advanced.                          *)
(*                                                                         *)
(* Indices are 0-based as in the source: arrays and slices are functions   *)
(* over 0..len-1.  The source sequence `src` is a TLA+ sequence, so item k *)
(* (0-based) of the source is src[k+1]; `pos` counts the items pulled.     *)
(***************************************************************************)
EXTENDS Integers, Sequences, FiniteSets, TLC

VARIABLES
    op,               \* which operation this run executes
    src,              \* the items the source iterator will yield
    pos,              \* number of items pulled from the source so far
    pc,               \* position in the operation's body
    result,           \* the value returned to the caller
    num,              \* $num: the length of the target array
    panicAt,          \* k > 0: converting the k-th pulled item panics; 0: never
    dstIdx,           \* number of slots the destination iter_mut() has yielded
    cur,              \* the item in flight between Zip::next and the loop body
    arr,              \* the array `arr` of the collectors, slot by slot
    filled,           \* the counter `filled`
    dropped,          \* per slot: how many times the element was destroyed
    uninitTouched,    \* slots read or destroyed while never populated
    i,                \* index of the running drop loop
    nextSeen,         \* what the caller's source.next() gave after the call
    slice,            \* the caller's buffer `slice`
    slice0,           \* the buffer as it was when the call started
    number_of_writes, \* the counter of try_convert_into_slice
    count,            \* the accumulator of Iterator::count
    out,              \* the vector collected / the results yielded so far
    module,           \* which copy of the movement code runs: movement.rs or lib.rs
    ntype,            \* the numeric type N of this run: "i8" or "u8"
    overflow_checks,  \* the build: TRUE panics on overflow, FALSE wraps
    dir,              \* the Direction value being turned
    turns,            \* the Direction methods called so far, in order
    faced,            \* the direction before each of those calls
    p,                \* the Position value
    q,                \* a second Position, the `other` operand
    calls,            \* the Position methods called so far, with their arguments
    value,            \* the number handed to Absolute::abs
    tuple,            \* the (T, T) handed to the ordering functions
    depth             \* the frames of Display::fmt on the stack

sharedVars  == <<op, src, pos, pc, result, dstIdx, cur>>
collectVars == <<num, panicAt, arr, filled, dropped, uninitTouched, i, nextSeen>>
sliceVars   == <<slice, slice0, number_of_writes, count, out>>
moveVars    == <<module, ntype, overflow_checks, dir, turns, faced, p, q, calls,
                 value, tuple, depth>>
vars        == <<sharedVars, collectVars, sliceVars, moveVars>>

\* The movement and absolute-value state while a conversion runs: unused.
MoveIdle ==
    /\ module = "none" /\ ntype = "none" /\ overflow_checks = FALSE
    /\ dir = "none" /\ turns = <<>> /\ faced = <<>>
    /\ p = <<>> /\ q = <<>> /\ calls = <<>> /\ value = 0 /\ tuple = <<>> /\ depth = 0

(***************************************************************************)
(* Bounds of the model.                                                    *)
(***************************************************************************)
MaxSrcLen == 3      \* longest source sequence
MaxN      == 3      \* largest target array length $num
MaxBuf    == 3      \* longest caller buffer

\* The i64 items the sources of Convert and of the collectors yield.
Items == {10, 20, 30}

RECURSIVE SeqsUpTo(_, _)
SeqsUpTo(S, n) ==
    IF n = 0 THEN {<<>>}
    ELSE LET shorter == SeqsUpTo(S, n - 1)
         IN  shorter \cup {Append(s, x) : s \in {t \in shorter : Len(t) = n - 1}, x \in S}

Min(a, b) == IF a < b THEN a ELSE b

(***************************************************************************)
(* Values.                                                                 *)
(***************************************************************************)
NoResult  == [tag |-> "None"]
Ok(v)     == [tag |-> "Ok", val |-> v]
Err(e)    == [tag |-> "Err", err |-> e]
Ret(v)    == [tag |-> "Ret", val |-> v] \* a returned value that is no Result

NoItem    == [some |-> FALSE]
Some(v)   == [some |-> TRUE, val |-> v]

Uninit     == [init |-> FALSE]           \* a slot of mem::uninitialized()
Written(v) == [init |-> TRUE, val |-> v] \* a slot after ptr::write

\* impl From<i64> for NonCopy: a wrapper that is not the number itself.
From_i64(n) == [item |-> n]

(***************************************************************************)
(* The array collectors: convert! and the two arms of convert_func!.       *)
(* The three bodies are the same statements; they differ in where the      *)
(* conversion runs (convert! converts in the loop body with src.into(),    *)
(* convert_func! inside the source's convert_iter()) and in the message of *)
(* the failure value.  The element type is taken to own a resource, so     *)
(* destroying an element is an observable step.                            *)
(***************************************************************************)
Collectors == {"convert", "convert_func", "convert_func_extend"}

\* The failure values: &'static str messages.
TooFew(m) == IF m = "convert" THEN "Too few elements"
             ELSE "there was a problem converting."

\* `if filled != $num`
NotAllFilled_eqzero(f, n) == f = 0
NotAllFilled(f, n) == f # n

\* `for i in 0..filled`
DropRange_whole(f, n) == 0 .. (n - 1)
DropRange(f, n) == 0 .. (f - 1)

\* ptr::drop_in_place on slot k, and the array's drop glue on slot k.
DropSlot(k) ==
    /\ dropped' = [dropped EXCEPT ![k] = @ + 1]
    /\ uninitTouched' = IF arr[k] = Uninit THEN uninitTouched \cup {k}
                        ELSE uninitTouched

InitCollect ==
    /\ op \in Collectors
    /\ src \in SeqsUpTo(Items, MaxSrcLen)
    /\ num \in 0 .. MaxN
    /\ panicAt \in 0 .. Len(src)
    /\ pos = 0
    /\ pc = "zip_a"
    /\ result = NoResult
    /\ dstIdx = 0
    /\ cur = NoItem
    /\ arr = [k \in 0 .. (num - 1) |-> Uninit]
    /\ filled = 0
    /\ dropped = [k \in 0 .. (num - 1) |-> 0]
    /\ uninitTouched = {}
    /\ i = 0
    /\ nextSeen = NoResult
    /\ slice = <<>> /\ slice0 = <<>> /\ number_of_writes = 0 /\ count = 0
    /\ out = <<>>
    /\ MoveIdle

\* A mis-ordered zip, source.zip(arr.iter_mut()): the source is advanced
\* before the destination is asked for a slot.
ZipSourceFirst ==
    /\ pc = "zip_a"
    /\ IF pos < Len(src)
       THEN /\ pos' = pos + 1
            /\ IF op # "convert" /\ panicAt = pos + 1
               THEN /\ pc' = "unwind" /\ i' = 0
                    /\ UNCHANGED <<cur, dstIdx>>
               ELSE /\ cur' = Some(IF op = "convert" THEN src[pos + 1]
                                   ELSE From_i64(src[pos + 1]))
                    /\ IF dstIdx < num
                       THEN dstIdx' = dstIdx + 1 /\ pc' = "write"
                       ELSE dstIdx' = dstIdx /\ pc' = "check"
                    /\ i' = i
       ELSE pc' = "check" /\ UNCHANGED <<pos, cur, dstIdx, i>>
    /\ UNCHANGED <<moveVars, op, src, result, num, panicAt, arr, filled, dropped,
                   uninitTouched, nextSeen, sliceVars>>

\* Zip::next, first half: arr.iter_mut().next().
ZipNextDst ==
    /\ pc = "zip_a"
    /\ IF dstIdx < num
       THEN dstIdx' = dstIdx + 1 /\ pc' = "zip_b"
       ELSE dstIdx' = dstIdx /\ pc' = "check"
    /\ UNCHANGED <<moveVars, op, src, pos, result, cur, collectVars, sliceVars>>

\* Zip::next, second half: the source's next().  With convert_func! the
\* source is self.convert_iter(), so the conversion -- and a panic of it --
\* happens here; with convert! the raw item is handed to the loop body.
ZipNextSrc ==
    /\ pc = "zip_b"
    /\ IF pos < Len(src)
       THEN /\ pos' = pos + 1
            /\ IF op # "convert" /\ panicAt = pos + 1
               THEN pc' = "unwind" /\ i' = 0 /\ cur' = cur
               ELSE /\ cur' = Some(IF op = "convert" THEN src[pos + 1]
                                   ELSE From_i64(src[pos + 1]))
                    /\ pc' = "write" /\ i' = i
       ELSE pc' = "check" /\ UNCHANGED <<pos, cur, i>>
    /\ UNCHANGED <<moveVars, op, src, result, dstIdx, num, panicAt, arr, filled,
                   dropped, uninitTouched, nextSeen, sliceVars>>

\* A write through the array's base pointer, without the slot's offset.
WriteSlot_base ==
    /\ pc = "write"
    /\ arr' = [arr EXCEPT ![0] = Written(IF op = "convert" THEN From_i64(cur.val)
                                         ELSE cur.val)]
    /\ cur' = NoItem
    /\ pc' = "incr"
    /\ UNCHANGED <<moveVars, op, src, pos, result, dstIdx, num, panicAt, filled, dropped,
                   uninitTouched, i, nextSeen, sliceVars>>

\* The loop body, first statement: ptr::write(dst, src.into()) in convert!,
\* ptr::write(dst, src) in convert_func!.
WriteSlot ==
    /\ pc = "write"
    /\ IF op = "convert" /\ panicAt = pos
       THEN pc' = "unwind" /\ i' = 0 /\ UNCHANGED <<arr, cur>>
       ELSE /\ arr' = [arr EXCEPT ![dstIdx - 1] =
                          Written(IF op = "convert" THEN From_i64(cur.val)
                                  ELSE cur.val)]
            /\ cur' = NoItem
            /\ pc' = "incr" /\ i' = i
    /\ UNCHANGED <<moveVars, op, src, pos, result, dstIdx, num, panicAt, filled, dropped,
                   uninitTouched, nextSeen, sliceVars>>

\* The counter stepped by two.
IncrFilled_two ==
    /\ pc = "incr"
    /\ filled' = filled + 2
    /\ pc' = "zip_a"
    /\ UNCHANGED <<moveVars, op, src, pos, result, dstIdx, cur, num, panicAt, arr,
                   dropped, uninitTouched, i, nextSeen, sliceVars>>

\* The loop body, second statement: filled += 1.
IncrFilled ==
    /\ pc = "incr"
    /\ filled' = filled + 1
    /\ pc' = "zip_a"
    /\ UNCHANGED <<moveVars, op, src, pos, result, dstIdx, cur, num, panicAt, arr,
                   dropped, uninitTouched, i, nextSeen, sliceVars>>

\* `if filled != $num { ... } else { Ok(arr) }`
CheckFilled ==
    /\ pc = "check"
    /\ IF NotAllFilled(filled, num)
       THEN pc' = "cleanup" /\ i' = 0 /\ result' = result
       ELSE pc' = "done" /\ i' = i /\ result' = Ok(arr)
    /\ UNCHANGED <<moveVars, op, src, pos, dstIdx, cur, num, panicAt, arr, filled,
                   dropped, uninitTouched, nextSeen, sliceVars>>

\* One iteration of `for i in 0..filled { ptr::drop_in_place(&mut arr[i]) }`.
DropFilled ==
    /\ pc = "cleanup"
    /\ i \in DropRange(filled, num)
    /\ DropSlot(i)
    /\ i' = i + 1
    /\ UNCHANGED <<moveVars, sharedVars, num, panicAt, arr, filled, nextSeen, sliceVars>>

\* After the drop loop: mem::forget(arr) runs no destructor; Err(message).
ForgetAndFail ==
    /\ pc = "cleanup"
    /\ i \notin DropRange(filled, num)
    /\ result' = Err(TooFew(op))
    /\ pc' = "done"
    /\ UNCHANGED <<moveVars, op, src, pos, dstIdx, cur, collectVars, sliceVars>>

\* A panic unwinds through the macro body while the local `arr` is live: its
\* drop glue destroys every one of the $num slots in order.  Destroying a
\* slot that was never written is undefined behaviour; the run either goes
\* on to the next slot or dies there.
UnwindDropArr ==
    /\ pc = "unwind"
    /\ i < num
    /\ DropSlot(i)
    /\ i' = i + 1
    /\ pc' \in IF arr[i] = Uninit THEN {"unwind", "crashed"} ELSE {"unwind"}
    /\ UNCHANGED <<moveVars, op, src, pos, result, dstIdx, cur, num, panicAt, arr, filled,
                   nextSeen, sliceVars>>

\* The unwinding leaves the frame: the panic propagates to the caller.
UnwindExit ==
    /\ pc = "unwind"
    /\ i >= num
    /\ pc' = "panicked"
    /\ UNCHANGED <<moveVars, op, src, pos, result, dstIdx, cur, collectVars, sliceVars>>

\* After a successful call on a borrowed source (`&mut range`), the caller
\* asks the source for its next item.
CallerNext ==
    /\ pc = "done"
    /\ result.tag = "Ok"
    /\ IF pos < Len(src)
       THEN nextSeen' = Ret(Some(src[pos + 1])) /\ pos' = pos + 1
       ELSE nextSeen' = Ret(NoItem) /\ pos' = pos
    /\ pc' = "observed"
    /\ UNCHANGED <<moveVars, op, src, result, dstIdx, cur, num, panicAt, arr, filled,
                   dropped, uninitTouched, i, sliceVars>>

NextCollect ==
    \/ ZipNextDst
    \/ ZipNextSrc
    \/ WriteSlot
    \/ IncrFilled
    \/ CheckFilled
    \/ DropFilled
    \/ ForgetAndFail
    \/ UnwindDropArr
    \/ UnwindExit
    \/ CallerNext

SpecCollect == InitCollect /\ [][NextCollect]_vars

(***************************************************************************)
(* TryConvert: strings parsed with str::parse.  A string is a sequence of  *)
(* characters; the target U is i8, the narrowest of the integer types, so  *)
(* that an out-of-range number is among the short inputs.                  *)
(***************************************************************************)
I8 == -128 .. 127

DigitChars == <<"0", "1", "2", "3", "4", "5", "6", "7", "8", "9">>
IsDigit(c) == \E d \in 1 .. 10 : DigitChars[d] = c
DigitVal(c) == (CHOOSE d \in 1 .. 10 : DigitChars[d] = c) - 1

\* The digit loop of <i8 as FromStr>::from_str: checked multiply by the
\* radix, then checked add (checked subtract for a negative number).
RECURSIVE ParseDigits(_, _, _)
ParseDigits(digits, acc, positive) ==
    IF digits = <<>> THEN Ok(acc)
    ELSE IF ~IsDigit(Head(digits)) THEN Err("InvalidDigit")
    ELSE LET mul  == acc * 10
             next == IF positive THEN mul + DigitVal(Head(digits))
                     ELSE mul - DigitVal(Head(digits))
         IN  IF mul \notin I8 \/ next \notin I8
             THEN Err(IF positive THEN "PosOverflow" ELSE "NegOverflow")
             ELSE ParseDigits(Tail(digits), next, positive)

\* item.as_ref().parse(): an optional sign, then at least one digit.
Parse(s) ==
    IF s = <<>> THEN Err("Empty")
    ELSE LET signed == Head(s) \in {"+", "-"}
             digits == IF signed THEN Tail(s) ELSE s
         IN  IF digits = <<>> THEN Err("InvalidDigit")
             ELSE ParseDigits(digits, 0, Head(s) # "-")

\* The strings the sources yield: "1", "2", "5", "-3", "3,4", "" and "128".
Strs == { <<"1">>, <<"2">>, <<"5">>, <<"-", "3">>, <<"3", ",", "4">>, <<>>,
          <<"1", "2", "8">> }

TryOps == {"try_convert", "try_convert_iter", "try_convert_into_slice"}

SliceLen(s) == Cardinality(DOMAIN s)

\* A caller's i8 buffer of length n, every position holding a value of its own.
PriorInts(n) == [k \in 0 .. (n - 1) |-> 100 + k]

InitTry ==
    /\ op \in TryOps
    /\ src \in SeqsUpTo(Strs, MaxSrcLen)
    /\ pos = 0
    /\ pc = op
    /\ result = NoResult
    /\ dstIdx = 0
    /\ cur = NoItem
    /\ num = 0 /\ panicAt = 0 /\ arr = <<>> /\ filled = 0 /\ dropped = <<>>
    /\ uninitTouched = {} /\ i = 0 /\ nextSeen = NoResult
    /\ \E n \in 0 .. MaxBuf :
          /\ op # "try_convert_into_slice" => n = 0
          /\ slice = PriorInts(n)
    /\ slice0 = slice
    /\ number_of_writes = 0
    /\ count = 0
    /\ out = <<>>
    /\ MoveIdle

\* A collect that does not stop at an error: it goes on pulling and reports
\* the error it saw last.
TryConvertNext_goeson ==
    /\ pc = "try_convert"
    /\ IF pos < Len(src)
       THEN /\ pos' = pos + 1
            /\ LET r == Parse(src[pos + 1])
               IN  IF r.tag = "Ok"
                   THEN out' = Append(out, r.val) /\ result' = result
                   ELSE out' = out /\ result' = r
            /\ pc' = pc
       ELSE /\ result' = IF result.tag = "Err" THEN result ELSE Ok(out)
            /\ pc' = "done"
            /\ UNCHANGED <<pos, out>>
    /\ UNCHANGED <<moveVars, op, src, dstIdx, cur, collectVars, slice, slice0,
                   number_of_writes, count>>

\* try_convert: self.try_convert_iter().collect() into Result<Vec<U>, E>.
\* One step pulls one item through the map closure: an Ok value is pushed,
\* an Err ends the collection and is returned, the end of the source
\* returns the vector.
TryConvertNext ==
    /\ pc = "try_convert"
    /\ IF pos < Len(src)
       THEN /\ pos' = pos + 1
            /\ LET r == Parse(src[pos + 1])
               IN  IF r.tag = "Ok"
                   THEN /\ out' = Append(out, r.val)
                        /\ UNCHANGED <<result, pc>>
                   ELSE /\ result' = r
                        /\ out' = <<>>
                        /\ pc' = "done"
       ELSE /\ result' = Ok(out)
            /\ pc' = "done"
            /\ UNCHANGED <<pos, out>>
    /\ UNCHANGED <<moveVars, op, src, dstIdx, cur, collectVars, slice, slice0,
                   number_of_writes, count>>

\* A fused variant: after the first Err the iterator yields nothing more.
TryIterNext_fused ==
    /\ pc = "try_convert_iter"
    /\ IF pos < Len(src) /\ (out = <<>> \/ out[Len(out)].val.tag = "Ok")
       THEN /\ pos' = pos + 1
            /\ out' = Append(out, Some(Parse(src[pos + 1])))
            /\ pc' = pc
       ELSE /\ out' = Append(out, NoItem)
            /\ pc' = "done"
            /\ pos' = pos
    /\ UNCHANGED <<moveVars, op, src, result, dstIdx, cur, collectVars, slice, slice0,
                   number_of_writes, count>>

\* try_convert_iter: self.map(|item| item.as_ref().parse()); one step is one
\* next() of the caller on the returned iterator, `out` what it has been
\* given so far.
TryIterNext ==
    /\ pc = "try_convert_iter"
    /\ IF pos < Len(src)
       THEN /\ pos' = pos + 1
            /\ out' = Append(out, Some(Parse(src[pos + 1])))
            /\ pc' = pc
       ELSE /\ out' = Append(out, NoItem)
            /\ pc' = "done"
            /\ pos' = pos
    /\ UNCHANGED <<moveVars, op, src, result, dstIdx, cur, collectVars, slice, slice0,
                   number_of_writes, count>>

\* A zip that asks the source for an item although the buffer has no slot
\* left for it.
TcsZipDst_pullsanyway ==
    /\ pc = "try_convert_into_slice"
    /\ IF dstIdx < SliceLen(slice)
       THEN dstIdx' = dstIdx + 1 /\ pc' = "tcs_src" /\ pos' = pos
       ELSE /\ dstIdx' = dstIdx /\ pc' = "tcs_ret"
            /\ pos' = IF pos < Len(src) THEN pos + 1 ELSE pos
    /\ UNCHANGED <<moveVars, op, src, result, cur, collectVars, sliceVars>>

\* try_convert_into_slice, Zip::next first half: slice.iter_mut().next().
TcsZipDst ==
    /\ pc = "try_convert_into_slice"
    /\ IF dstIdx < SliceLen(slice)
       THEN dstIdx' = dstIdx + 1 /\ pc' = "tcs_src"
       ELSE dstIdx' = dstIdx /\ pc' = "tcs_ret"
    /\ UNCHANGED <<moveVars, op, src, pos, result, cur, collectVars, sliceVars>>

\* Zip::next second half: the next item of self.try_convert_iter().
TcsZipSrc ==
    /\ pc = "tcs_src"
    /\ IF pos < Len(src)
       THEN /\ pos' = pos + 1
            /\ cur' = Some(Parse(src[pos + 1]))
            /\ pc' = "tcs_body"
       ELSE pc' = "tcs_ret" /\ UNCHANGED <<pos, cur>>
    /\ UNCHANGED <<moveVars, op, src, result, dstIdx, collectVars, sliceVars>>

\* A loop body that counts the item before it looks at it.
TcsBody_countfirst ==
    /\ pc = "tcs_body"
    /\ number_of_writes' = number_of_writes + 1
    /\ IF cur.val.tag = "Ok"
       THEN /\ slice' = [slice EXCEPT ![dstIdx - 1] = cur.val.val]
            /\ pc' = "try_convert_into_slice"
            /\ result' = result
       ELSE /\ result' = Err(number_of_writes')
            /\ pc' = "done"
            /\ slice' = slice
    /\ cur' = NoItem
    /\ UNCHANGED <<moveVars, op, src, pos, dstIdx, collectVars, slice0, count, out>>

\* The loop body: `if let Ok(converted) = src { *dst = converted;
\* number_of_writes += 1; } else { return Err(number_of_writes); }`
TcsBody ==
    /\ pc = "tcs_body"
    /\ IF cur.val.tag = "Ok"
       THEN /\ slice' = [slice EXCEPT ![dstIdx - 1] = cur.val.val]
            /\ number_of_writes' = number_of_writes + 1
            /\ pc' = "try_convert_into_slice"
            /\ result' = result
       ELSE /\ result' = Err(number_of_writes)
            /\ pc' = "done"
            /\ UNCHANGED <<slice, number_of_writes>>
    /\ cur' = NoItem
    /\ UNCHANGED <<moveVars, op, src, pos, dstIdx, collectVars, slice0, count, out>>

\* A return of the buffer's length instead of the counter.
TcsReturn_len ==
    /\ pc = "tcs_ret"
    /\ result' = Ok(SliceLen(slice))
    /\ pc' = "done"
    /\ UNCHANGED <<moveVars, op, src, pos, dstIdx, cur, collectVars, sliceVars>>

\* After the loop: Ok(number_of_writes).
TcsReturn ==
    /\ pc = "tcs_ret"
    /\ result' = Ok(number_of_writes)
    /\ pc' = "done"
    /\ UNCHANGED <<moveVars, op, src, pos, dstIdx, cur, collectVars, sliceVars>>

NextTry ==
    \/ TryConvertNext
    \/ TryIterNext
    \/ TcsZipDst
    \/ TcsZipSrc
    \/ TcsBody
    \/ TcsReturn

SpecTry == InitTry /\ [][NextTry]_vars

(***************************************************************************)
(* Convert::convert_into_slice:                                            *)
(*   slice.iter_mut().zip(self.convert_iter()).map(|(dst, src)| *dst = src)*)
(*        .count()                                                         *)
(***************************************************************************)
\* A caller's NonCopy buffer of length n, every position holding a value of
\* its own that no source item converts to.
PriorElems(n) == [k \in 0 .. (n - 1) |-> From_i64(0 - (k + 1))]

InitConvert ==
    /\ op = "convert_into_slice"
    /\ src \in SeqsUpTo(Items, MaxSrcLen)
    /\ pos = 0
    /\ pc = "cis_dst"
    /\ result = NoResult
    /\ dstIdx = 0
    /\ cur = NoItem
    /\ num = 0 /\ panicAt = 0 /\ arr = <<>> /\ filled = 0 /\ dropped = <<>>
    /\ uninitTouched = {} /\ i = 0 /\ nextSeen = NoResult
    /\ \E n \in 0 .. MaxBuf : slice = PriorElems(n)
    /\ slice0 = slice
    /\ number_of_writes = 0
    /\ count = 0
    /\ out = <<>>
    /\ MoveIdle

\* Zip::next first half: slice.iter_mut().next().
CisZipDst ==
    /\ pc = "cis_dst"
    /\ IF dstIdx < SliceLen(slice)
       THEN dstIdx' = dstIdx + 1 /\ pc' = "cis_src"
       ELSE dstIdx' = dstIdx /\ pc' = "cis_ret"
    /\ UNCHANGED <<moveVars, op, src, pos, result, cur, collectVars, sliceVars>>

\* Zip::next second half: the next item of self.convert_iter(), U::from(item).
CisZipSrc ==
    /\ pc = "cis_src"
    /\ IF pos < Len(src)
       THEN /\ pos' = pos + 1
            /\ cur' = Some(From_i64(src[pos + 1]))
            /\ pc' = "cis_map"
       ELSE pc' = "cis_ret" /\ UNCHANGED <<pos, cur>>
    /\ UNCHANGED <<moveVars, op, src, result, dstIdx, collectVars, sliceVars>>

\* A closure that stores every item in the first position of the buffer.
CisAssign_first ==
    /\ pc = "cis_map"
    /\ slice' = [slice EXCEPT ![0] = cur.val]
    /\ count' = count + 1
    /\ cur' = NoItem
    /\ pc' = "cis_dst"
    /\ UNCHANGED <<moveVars, op, src, pos, result, dstIdx, collectVars, slice0,
                   number_of_writes, out>>

\* The map closure `*dst = src`, counted by count().
CisAssign ==
    /\ pc = "cis_map"
    /\ slice' = [slice EXCEPT ![dstIdx - 1] = cur.val]
    /\ count' = count + 1
    /\ cur' = NoItem
    /\ pc' = "cis_dst"
    /\ UNCHANGED <<moveVars, op, src, pos, result, dstIdx, collectVars, slice0,
                   number_of_writes, out>>

\* count() returns the number of items the mapped zip yielded.
CisReturn ==
    /\ pc = "cis_ret"
    /\ result' = Ret(count)
    /\ pc' = "done"
    /\ UNCHANGED <<moveVars, op, src, pos, dstIdx, cur, collectVars, sliceVars>>

NextConvert ==
    \/ CisZipDst
    \/ CisZipSrc
    \/ CisAssign
    \/ CisReturn

SpecConvert == InitConvert /\ [][NextConvert]_vars

(***************************************************************************)
(* Properties of the array collectors, checked under SpecCollect.          *)
(***************************************************************************)
Returned == pc \in {"done", "observed"}

\* C1: when the source yields fewer than $num items the call returns the
\* failure value and never an array; an array is returned only when `filled`
\* reached $num and every one of its slots was written.
C1_FailureNoPartialArray ==
    /\ Len(src) < num => result.tag # "Ok"
    /\ (Len(src) < num /\ Returned) => result = Err(TooFew(op))
    /\ result.tag = "Ok" =>
          /\ filled = num
          /\ DOMAIN result.val = 0 .. (num - 1)
          /\ \A k \in 0 .. (num - 1) : result.val[k] # Uninit

\* A source that ends after a proper, non-empty prefix was written.
C1_Witness ==
    /\ pc = "done"
    /\ result.tag = "Err"
    /\ 0 < Len(src) /\ Len(src) < num
    /\ filled = Len(src)

\* C2: when the source ends after k < $num items, the failure is returned
\* with slots 0..k-1 destroyed exactly once each and slots k..$num-1 neither
\* read nor destroyed.
C2_PrefixDestroyedOnce ==
    (pc = "done" /\ result.tag = "Err") =>
        /\ Len(src) < num
        /\ \A k \in 0 .. (num - 1) :
              dropped[k] = IF k < Len(src) THEN 1 ELSE 0
        /\ uninitTouched = {}

\* The scenario of the specification: input [10], target length 3.
C2_Witness ==
    /\ pc = "done"
    /\ result.tag = "Err"
    /\ src = <<10>> /\ num = 3
    /\ dropped = [k \in 0 .. 2 |-> IF k = 0 THEN 1 ELSE 0]

\* C3: on every failure path -- the source ending early, or the conversion
\* of an item panicking after some slots were populated -- no slot is
\* destroyed twice, no unpopulated slot is read or destroyed, and when the
\* call has ended every populated slot was destroyed exactly once.
C3_EveryFailurePath ==
    /\ (filled > 0 \/ pc \in {"cleanup", "done"}) => uninitTouched = {}
    /\ \A k \in 0 .. (num - 1) : dropped[k] <= 1
    /\ ((pc = "done" /\ result.tag = "Err")
           \/ (pc \in {"panicked", "crashed"} /\ filled > 0)) =>
          \A k \in 0 .. (num - 1) : dropped[k] = IF arr[k] # Uninit THEN 1 ELSE 0

\* C4: a successful call has pulled exactly $num items; on a longer source
\* the caller's next() afterwards gives the item at index $num.
C4_ExcessLeftUnconsumed ==
    /\ (pc = "done" /\ result.tag = "Ok") => pos = num
    /\ (pc = "observed" /\ Len(src) > num) => nextSeen = Ret(Some(src[num + 1]))
    /\ (pc = "observed" /\ Len(src) <= num) => nextSeen = Ret(NoItem)

\* Two items collected from a source of three: the third is still there.
C4_Witness ==
    /\ pc = "observed"
    /\ num = 2 /\ src = <<10, 20, 30>>
    /\ nextSeen = Ret(Some(30))

\* C5: from a source of at least $num items, none of whose first $num
\* conversions panics, the call returns Ok(array) with element k the
\* conversion of the k-th item pulled.
C5_ArrayInSourceOrder ==
    (Len(src) >= num /\ (panicAt = 0 \/ panicAt > num)) =>
        /\ pc \notin {"cleanup", "unwind", "panicked", "crashed"}
        /\ Returned =>
              result = Ok([k \in 0 .. (num - 1) |-> Written([item |-> src[k + 1]])])

\* A full-length array of three different items.
C5_Witness ==
    /\ pc = "done"
    /\ num = 3 /\ src = <<30, 10, 20>>
    /\ result.tag = "Ok"
    /\ result.val[0].val.item = 30 /\ result.val[2].val.item = 20

(***************************************************************************)
(* Properties of TryConvert, checked under SpecTry.                        *)
(***************************************************************************)
\* Item k (0-based) of s does not parse.
Bad(s, k) == Parse(s[k + 1]).tag = "Err"
HasBad(s) == \E k \in 0 .. (Len(s) - 1) : Bad(s, k)
FirstBad(s) ==
    CHOOSE k \in 0 .. (Len(s) - 1) : Bad(s, k) /\ \A j \in 0 .. (k - 1) : ~Bad(s, j)

\* C6: try_convert returns Ok(the parsed values in input order) when every
\* item parses; otherwise Err(the error of the first unparseable item), and
\* nothing after that item is pulled.
C6_TryConvertFirstError ==
    op = "try_convert" =>
        /\ HasBad(src) => pos <= FirstBad(src) + 1
        /\ pc = "done" =>
              IF HasBad(src)
              THEN /\ result = Parse(src[FirstBad(src) + 1])
                   /\ pos = FirstBad(src) + 1
              ELSE /\ result.tag = "Ok"
                   /\ Len(result.val) = Len(src)
                   /\ \A k \in 1 .. Len(src) : Ok(result.val[k]) = Parse(src[k])
        /\ (pc = "done" /\ src = << <<"1">>, <<"-", "3">>, <<"5">> >>) =>
              result = Ok(<<1, 0 - 3, 5>>)
        /\ (pc = "done" /\ src = << <<"1">>, <<"3", ",", "4">>, <<"1", "2", "8">> >>) =>
              result = Err("InvalidDigit")

\* "1", "3,4", "128": the second item fails first, the third would fail too.
C6_Witness ==
    /\ op = "try_convert" /\ pc = "done"
    /\ src = << <<"1">>, <<"3", ",", "4">>, <<"1", "2", "8">> >>
    /\ result = Err("InvalidDigit")
    /\ pos = 2

\* C7: try_convert_iter yields one result per item, in order, result k the
\* parse of item k; an Err does not end the iteration.
C7_TryConvertIterEveryItem ==
    op = "try_convert_iter" =>
        /\ Len(out) = pos + (IF pc = "done" THEN 1 ELSE 0)
        /\ \A k \in 1 .. pos : out[k] = Some(Parse(src[k]))
        /\ pc = "done" => (pos = Len(src) /\ out[Len(out)] = NoItem)
        /\ (pc = "done" /\ src = << <<"1">>, <<"3", ",", "4">>, <<"5">> >>) =>
              out = <<Some(Ok(1)), Some(Err("InvalidDigit")), Some(Ok(5)), NoItem>>

\* "1", "3,4", "5": Ok(1), Err, Ok(5), then the end.
C7_Witness ==
    /\ op = "try_convert_iter" /\ pc = "done"
    /\ src = << <<"1">>, <<"3", ",", "4">>, <<"5">> >>
    /\ out[2].val.tag = "Err" /\ out[3] = Some(Ok(5))

\* What try_convert_into_slice leaves in the buffer after m writes.
PrefixWritten(m) ==
    /\ \A k \in 0 .. (m - 1) : Ok(slice[k]) = Parse(src[k + 1])
    /\ \A k \in m .. (SliceLen(slice) - 1) : slice[k] = slice0[k]
    /\ DOMAIN slice = DOMAIN slice0

\* C8 as stated: whenever the first unparseable item is at position k, the
\* call returns Err(k) with buf[0..k-1] parsed and the rest untouched.
C8_AsStated ==
    (op = "try_convert_into_slice" /\ pc = "done" /\ HasBad(src)) =>
        /\ result = Err(FirstBad(src))
        /\ PrefixWritten(Min(FirstBad(src), SliceLen(slice)))

\* C8, amended: when the first unparseable item is at a position k below
\* buf.len(), the call returns Err(k); buf[0..k-1] hold the parsed values of
\* items 0..k-1 and every position from k on keeps its prior value.
C8_ErrWithinBuffer ==
    (op = "try_convert_into_slice" /\ pc = "done" /\ HasBad(src)
        /\ FirstBad(src) < SliceLen(slice)) =>
        /\ result = Err(FirstBad(src))
        /\ PrefixWritten(FirstBad(src))
        /\ (src = << <<"1">>, <<"2">>, <<"3", ",", "4">> >> /\ SliceLen(slice) = 3) =>
              slice = [k \in 0 .. 2 |-> IF k = 0 THEN 1 ELSE IF k = 1 THEN 2 ELSE 102]

\* "1", "2", "3,4" into a buffer of three: Err(2), the third position kept.
C8_Witness ==
    /\ op = "try_convert_into_slice" /\ pc = "done"
    /\ src = << <<"1">>, <<"2">>, <<"3", ",", "4">> >>
    /\ SliceLen(slice) = 3
    /\ result = Err(2)
    /\ slice[2] = slice0[2]

\* C9: when all n items parse, the call returns Ok(min(buf.len(), n)); that
\* many leading positions hold the parsed values in order, the others keep
\* their prior value.
C9_OkCountIsMin ==
    (op = "try_convert_into_slice" /\ pc = "done" /\ ~HasBad(src)) =>
        /\ result = Ok(Min(SliceLen(slice), Len(src)))
        /\ PrefixWritten(Min(SliceLen(slice), Len(src)))
        /\ (src = << <<"5">>, <<"-", "3">> >> /\ SliceLen(slice) = 3) =>
              slice = [k \in 0 .. 2 |-> IF k = 0 THEN 5 ELSE IF k = 1 THEN 0 - 3 ELSE 102]

\* Two parseable items into a buffer of three.
C9_Witness ==
    /\ op = "try_convert_into_slice" /\ pc = "done"
    /\ src = << <<"5">>, <<"-", "3">> >>
    /\ SliceLen(slice) = 3
    /\ result = Ok(2)

(***************************************************************************)
(* Properties of Convert, checked under SpecConvert.                       *)
(***************************************************************************)
\* C10: convert_into_slice returns min(buf.len(), n), has written the
\* converted items to the leading min positions in input order, and leaves
\* every later position of the buffer as it was.
C10_ConvertIntoSlice ==
    (op = "convert_into_slice" /\ pc = "done") =>
        LET m == Min(SliceLen(slice), Len(src))
        IN  /\ result = Ret(m)
            /\ DOMAIN slice = DOMAIN slice0
            /\ \A k \in 0 .. (m - 1) : slice[k] = [item |-> src[k + 1]]
            /\ \A k \in m .. (SliceLen(slice) - 1) : slice[k] = slice0[k]

\* A source shorter than the buffer, and one longer than it.
C10_Witness ==
    /\ op = "convert_into_slice" /\ pc = "done"
    /\ src = <<20, 10>> /\ SliceLen(slice) = 3
    /\ result = Ret(2)
    /\ slice[1] = [item |-> 10] /\ slice[2] = slice0[2]

(***************************************************************************)
(* Direction.  The repository holds the movement code twice: movement.rs,  *)
(* whose Direction has the four variants Up, Down, Right, Left, and        *)
(* lib.rs, whose Direction has a fifth variant Init.  `module` says which  *)
(* copy a run uses.                                                        *)
(***************************************************************************)
Modules == {"movement.rs", "lib.rs"}

Direction == {"Up", "Down", "Right", "Left"}
lib_Direction == {"Up", "Down", "Right", "Left", "Init"}
DirectionOf(m) == IF m = "lib.rs" THEN lib_Direction ELSE Direction

\* What a call that panics gives instead of a value.
Panic == "panic!"

\* movement.rs, Direction::turn_right, with a wrong arm: Down => Right.
turn_right_downright(self) ==
    CASE self = "Up"    -> "Right"
      [] self = "Right" -> "Down"
      [] self = "Down"  -> "Right"
      [] self = "Left"  -> "Up"

\* movement.rs, Direction::turn_right
turn_right(self) ==
    CASE self = "Up"    -> "Right"
      [] self = "Right" -> "Down"
      [] self = "Down"  -> "Left"
      [] self = "Left"  -> "Up"

\* Direction::turn_left with the body of turn_right.
turn_left_asright(self) ==
    CASE self = "Up"    -> "Right"
      [] self = "Right" -> "Down"
      [] self = "Down"  -> "Left"
      [] self = "Left"  -> "Up"

\* movement.rs, Direction::turn_left
turn_left(self) ==
    CASE self = "Up"    -> "Left"
      [] self = "Left"  -> "Down"
      [] self = "Down"  -> "Right"
      [] self = "Right" -> "Up"

\* Direction::reverse as in an early revision: Right stays Right.
reverse_rightstays(self) ==
    CASE self = "Up"    -> "Down"
      [] self = "Down"  -> "Up"
      [] self = "Left"  -> "Right"
      [] self = "Right" -> "Right"

\* movement.rs, Direction::reverse
reverse(self) ==
    CASE self = "Up"    -> "Down"
      [] self = "Down"  -> "Up"
      [] self = "Left"  -> "Right"
      [] self = "Right" -> "Left"

\* lib.rs, Direction::turn_right with Init left as it is.
lib_turn_right_initstays(self) ==
    CASE self = "Up"    -> "Right"
      [] self = "Right" -> "Down"
      [] self = "Down"  -> "Left"
      [] self = "Left"  -> "Up"
      [] self = "Init"  -> "Init"

\* lib.rs, Direction::turn_right
lib_turn_right(self) ==
    CASE self = "Up"    -> "Right"
      [] self = "Right" -> "Down"
      [] self = "Down"  -> "Left"
      [] self = "Left"  -> "Up"
      [] self = "Init"  -> "Right"

\* lib.rs, Direction::turn_left
lib_turn_left(self) ==
    CASE self = "Up"    -> "Left"
      [] self = "Left"  -> "Down"
      [] self = "Down"  -> "Right"
      [] self = "Right" -> "Up"
      [] self = "Init"  -> "Left"

\* lib.rs, Direction::reverse
lib_reverse(self) ==
    CASE self = "Up"    -> "Down"
      [] self = "Down"  -> "Up"
      [] self = "Left"  -> "Right"
      [] self = "Right" -> "Left"
      [] self = "Init"  -> Panic

\* The conversion state while the movement code runs: unused.
ConvertIdle ==
    /\ src = <<>> /\ pos = 0 /\ dstIdx = 0 /\ cur = NoItem
    /\ num = 0 /\ panicAt = 0 /\ arr = <<>> /\ filled = 0 /\ dropped = <<>>
    /\ uninitTouched = {} /\ i = 0 /\ nextSeen = NoResult
    /\ slice = <<>> /\ slice0 = <<>> /\ number_of_writes = 0 /\ count = 0
    /\ out = <<>>

convertVars == <<src, pos, dstIdx, cur, collectVars, sliceVars>>

MaxTurns == 4       \* longest sequence of Direction calls in one run

\* A Direction from init_up / init_down / init_left / init_right (and
\* init_init in lib.rs), then any sequence of turn_right, turn_left, reverse.
InitDir ==
    /\ op = "Direction"
    /\ pc = "turning"
    /\ result = NoResult
    /\ module \in Modules
    /\ dir \in DirectionOf(module)
    /\ turns = <<>>
    /\ faced = <<>>
    /\ ntype = "none" /\ overflow_checks = FALSE
    /\ p = <<>> /\ q = <<>> /\ calls = <<>> /\ value = 0 /\ tuple = <<>> /\ depth = 0
    /\ ConvertIdle

\* One Direction method call giving `next`, or panicking.
Turned(name, next) ==
    /\ pc = "turning"
    /\ Len(turns) < MaxTurns
    /\ turns' = Append(turns, name)
    /\ faced' = Append(faced, dir)
    /\ IF next = Panic
       THEN pc' = "panicked" /\ dir' = dir
       ELSE pc' = pc /\ dir' = next
    /\ UNCHANGED <<op, result, module, ntype, overflow_checks, p, q, calls,
                   value, tuple, depth, convertVars>>

TurnRight ==
    Turned("turn_right", IF module = "lib.rs" THEN lib_turn_right(dir)
                         ELSE turn_right(dir))

TurnLeft ==
    Turned("turn_left", IF module = "lib.rs" THEN lib_turn_left(dir)
                        ELSE turn_left(dir))

Reverse ==
    Turned("reverse", IF module = "lib.rs" THEN lib_reverse(dir)
                      ELSE reverse(dir))

NextDir ==
    \/ TurnRight
    \/ TurnLeft
    \/ Reverse

SpecDir == InitDir /\ [][NextDir]_vars

(***************************************************************************)
(* Position<N>.  N is a fixed-width integer: the runs take i8 for the      *)
(* signed types and u8 for the unsigned ones.  The methods are written     *)
(* over the integers; what the machine makes of a result that does not fit *)
(* N depends on the build: with overflow checks the operation panics,      *)
(* without them the result wraps.                                          *)
(***************************************************************************)
NumTypes == {"i8", "u8"}

MinOf(t) == IF t = "i8" THEN -128 ELSE 0
MaxOf(t) == IF t = "i8" THEN 127 ELSE 255
InRange(t, n) == MinOf(t) <= n /\ n <= MaxOf(t)
Wrap(t, n) == IF t = "i8" THEN ((n + 128) % 256) - 128 ELSE n % 256

\* A call that panicked.
Panicked == [tag |-> "panic"]

\* Position::new
new(x, y) == [x |-> x, y |-> y]

\* The number the machine holds for the integer n.
BuiltN(t, checks, n) ==
    IF InRange(t, n) THEN Ret(n)
    ELSE IF checks THEN Panicked
    ELSE Ret(Wrap(t, n))

\* The Position the machine holds for the pair of integers v.
Built(t, checks, v) ==
    IF InRange(t, v.x) /\ InRange(t, v.y) THEN Ret(v)
    ELSE IF checks THEN Panicked
    ELSE Ret(new(Wrap(t, v.x), Wrap(t, v.y)))

\* Position::change with the Up and Down arms exchanged.
change_yswapped(self, direction, steps) ==
    CASE direction = "Up"    -> [self EXCEPT !.y = self.y + steps]
      [] direction = "Down"  -> [self EXCEPT !.y = self.y - steps]
      [] direction = "Right" -> [self EXCEPT !.x = self.x + steps]
      [] direction = "Left"  -> [self EXCEPT !.x = self.x - steps]

\* Position::change with the Left arm a copy of the Right arm.
change_leftadds(self, direction, steps) ==
    CASE direction = "Up"    -> [self EXCEPT !.y = self.y - steps]
      [] direction = "Down"  -> [self EXCEPT !.y = self.y + steps]
      [] direction = "Right" -> [self EXCEPT !.x = self.x + steps]
      [] direction = "Left"  -> [self EXCEPT !.x = self.x + steps]

\* movement.rs, Position::change
change(self, direction, steps) ==
    CASE direction = "Up"    -> [self EXCEPT !.y = self.y - steps]
      [] direction = "Down"  -> [self EXCEPT !.y = self.y + steps]
      [] direction = "Right" -> [self EXCEPT !.x = self.x + steps]
      [] direction = "Left"  -> [self EXCEPT !.x = self.x - steps]

\* Position::rev_change with the body of change.
rev_change_aschange(self, direction, steps) ==
    CASE direction = "Up"    -> [self EXCEPT !.y = self.y - steps]
      [] direction = "Down"  -> [self EXCEPT !.y = self.y + steps]
      [] direction = "Right" -> [self EXCEPT !.x = self.x + steps]
      [] direction = "Left"  -> [self EXCEPT !.x = self.x - steps]

\* movement.rs, Position::rev_change
rev_change(self, direction, steps) ==
    CASE direction = "Up"    -> [self EXCEPT !.y = self.y + steps]
      [] direction = "Down"  -> [self EXCEPT !.y = self.y - steps]
      [] direction = "Right" -> [self EXCEPT !.x = self.x + steps]
      [] direction = "Left"  -> [self EXCEPT !.x = self.x - steps]

\* lib.rs, Position::change
lib_change(self, direction, steps) ==
    CASE direction = "Up"    -> [self EXCEPT !.y = self.y - steps]
      [] direction = "Down"  -> [self EXCEPT !.y = self.y + steps]
      [] direction = "Right" -> [self EXCEPT !.x = self.x + steps]
      [] direction = "Left"  -> [self EXCEPT !.x = self.x - steps]
      [] direction = "Init"  -> self

\* lib.rs, Position::rev_change
lib_rev_change(self, direction, steps) ==
    CASE direction = "Up"    -> [self EXCEPT !.y = self.y + steps]
      [] direction = "Down"  -> [self EXCEPT !.y = self.y - steps]
      [] direction = "Right" -> [self EXCEPT !.x = self.x + steps]
      [] direction = "Left"  -> [self EXCEPT !.x = self.x - steps]
      [] direction = "Init"  -> self

\* The operator $oper the binops! macro is invoked with: + for Add, - for Sub.
Oper(oper, a, b) == IF oper = "+" THEN a + b ELSE a - b

\* Clone of an integer.
clone(n) == n

\* impl Imp<Position<N>> for Position<N>
binop_val_val(oper, self, rhs) ==
    new(Oper(oper, self.x, rhs.x), Oper(oper, self.y, rhs.y))

\* impl Imp<Position<N>> for &Position<N>
binop_ref_val(oper, self, rhs) ==
    new(Oper(oper, clone(self.x), rhs.x), Oper(oper, clone(self.y), rhs.y))

\* impl Imp<&Position<N>> for Position<N>, with y computed from other.x.
binop_val_ref_xtwice(oper, self, rhs) ==
    new(Oper(oper, self.x, clone(rhs.x)), Oper(oper, self.y, clone(rhs.x)))

\* impl Imp<&Position<N>> for Position<N>
binop_val_ref(oper, self, rhs) ==
    new(Oper(oper, self.x, clone(rhs.x)), Oper(oper, self.y, clone(rhs.y)))

\* impl Imp<&Position<N>> for &Position<N>
binop_ref_ref(oper, self, rhs) ==
    new(Oper(oper, clone(self.x), clone(rhs.x)),
        Oper(oper, clone(self.y), clone(rhs.y)))

Forms == {"val_val", "ref_val", "val_ref", "ref_ref"}

\* The impl the compiler picks for the operand kinds `form`.
binop(form, oper, self, rhs) ==
    CASE form = "val_val" -> binop_val_val(oper, self, rhs)
      [] form = "ref_val" -> binop_ref_val(oper, self, rhs)
      [] form = "val_ref" -> binop_val_ref(oper, self, rhs)
      [] form = "ref_ref" -> binop_ref_ref(oper, self, rhs)

\* rec_i_absolute!'s abs left as the identity.
i_abs_asis(n) == n

\* rec_i_absolute!: self.abs() of a signed integer
i_abs(n) == IF n < 0 THEN 0 - n ELSE n

\* rec_u_absolute!: self
u_abs(n) == n

\* Absolute::abs of the type t
abs(t, n) == IF t = "i8" THEN i_abs(n) ELSE u_abs(n)

\* Absolute for Position<N> taking the absolute value of x only.
pos_abs_xonly(t, self) == new(abs(t, self.x), self.y)

\* Absolute for Position<N>
pos_abs(t, self) == new(abs(t, self.x), abs(t, self.y))

\* Position::is_adjecent without its third arm.
is_adjecent_nodiagonal(t, checks, self, rhs) ==
    LET diff == Built(t, checks, binop_ref_ref("-", self, rhs)) IN
    IF diff = Panicked THEN Panicked
    ELSE LET a == Built(t, checks, pos_abs(t, diff.val)) IN
         IF a = Panicked THEN Panicked
         ELSE Ret(\/ a.val.x = 0 /\ a.val.y = 1
                  \/ a.val.x = 1 /\ a.val.y = 0)

\* Position::is_adjecent: match (self - other).abs()
is_adjecent(t, checks, self, rhs) ==
    LET diff == Built(t, checks, binop_ref_ref("-", self, rhs)) IN
    IF diff = Panicked THEN Panicked
    ELSE LET a == Built(t, checks, pos_abs(t, diff.val)) IN
         IF a = Panicked THEN Panicked
         ELSE Ret(\/ a.val.x = 0 /\ a.val.y = 1
                  \/ a.val.x = 1 /\ a.val.y = 0
                  \/ a.val.x = 1 /\ a.val.y = 1)

\* The coordinates, step counts and operands the runs take.
Coord(t)      == IF t = "i8" THEN {-128, -1, 0, 1, 127} ELSE {0, 1, 255}
OtherCoord(t) == IF t = "i8" THEN {-128, 1} ELSE {1, 255}
Steps(t)      == IF t = "i8" THEN {-1, 0, 1, 127} ELSE {0, 1, 255}
Positions(t)      == {new(a, b) : a \in Coord(t), b \in Coord(t)}
OtherPositions(t) == {new(a, b) : a \in OtherCoord(t), b \in OtherCoord(t)}

\* The part of Position's interface a run calls.
PosOps == {"change", "binops", "is_adjecent", "abs", "manhattendst"}

\* A Position p, a second one q where the methods take one, and then up to
\* two calls.  is_adjecent needs N: From<i8>, which u8 is not.
InitPos ==
    /\ op \in PosOps
    /\ pc = "first"
    /\ result = NoResult
    /\ module \in Modules
    /\ ntype \in (IF op = "is_adjecent" THEN {"i8"} ELSE NumTypes)
    /\ overflow_checks \in BOOLEAN
    /\ p \in Positions(ntype)
    /\ q \in (IF op \in {"binops", "is_adjecent"} THEN OtherPositions(ntype)
              ELSE {p})
    /\ calls = <<>>
    /\ dir = "none" /\ turns = <<>> /\ faced = <<>> /\ value = 0 /\ tuple = <<>> /\ depth = 0
    /\ ConvertIdle

\* One call: recorded with its arguments and what it gave.
Called(name, arg, given) ==
    /\ pc \in {"first", "second"}
    /\ calls' = Append(calls, [name |-> name, arg |-> arg, out |-> given])
    /\ result' = given
    /\ pc' = IF given = Panicked THEN "panicked"
             ELSE IF pc = "first" THEN "second" ELSE "done"
    /\ UNCHANGED <<op, module, ntype, overflow_checks, dir, turns, faced, q,
                   value, tuple, depth, convertVars>>

Change ==
    /\ op = "change"
    /\ \E d \in DirectionOf(module), k \in Steps(ntype) :
         LET moved == IF module = "lib.rs" THEN lib_change(p, d, k)
                      ELSE change(p, d, k)
             given == Built(ntype, overflow_checks, moved)
         IN  /\ Called("change", [self |-> p, direction |-> d, steps |-> k],
                       given)
             /\ p' = IF given = Panicked THEN p ELSE given.val

RevChange ==
    /\ op = "change"
    /\ \E d \in DirectionOf(module), k \in Steps(ntype) :
         LET moved == IF module = "lib.rs" THEN lib_rev_change(p, d, k)
                      ELSE rev_change(p, d, k)
             given == Built(ntype, overflow_checks, moved)
         IN  /\ Called("rev_change",
                       [self |-> p, direction |-> d, steps |-> k], given)
             /\ p' = IF given = Panicked THEN p ELSE given.val

\* The operand pairs a call can take: p and q either way round, and the
\* Position the call before gave with q.
Operands ==
    {<<p, q>>, <<q, p>>}
        \cup (IF result.tag = "Ret" THEN {<<result.val, q>>} ELSE {})

BinOp(oper) ==
    /\ op = "binops"
    /\ \E form \in Forms, pair \in Operands :
         /\ Called(oper,
                   [form |-> form, self |-> pair[1], other |-> pair[2]],
                   Built(ntype, overflow_checks,
                         binop(form, oper, pair[1], pair[2])))
         /\ p' = p

Add == BinOp("+")

Sub == BinOp("-")

IsAdjecent ==
    /\ op = "is_adjecent"
    /\ \E pair \in {<<p, q>>, <<q, p>>, <<p, p>>} :
         /\ Called("is_adjecent", [self |-> pair[1], other |-> pair[2]],
                   is_adjecent(ntype, overflow_checks, pair[1], pair[2]))
         /\ p' = p

AbsPos ==
    /\ op = "abs"
    /\ LET given == Built(ntype, overflow_checks, pos_abs(ntype, p))
       IN  /\ Called("abs", [self |-> p], given)
           /\ p' = IF given = Panicked THEN p ELSE given.val

\* n.abs() as the machine holds it.
AbsN(t, checks, n) == BuiltN(t, checks, abs(t, n))

\* a + b on N, of two numbers that are there unless their abs panicked.
AddN(t, checks, a, b) ==
    IF a = Panicked \/ b = Panicked THEN Panicked
    ELSE BuiltN(t, checks, a.val + b.val)

\* ManhattenDst for Position<N> adding self.y as it is.
manhattendst_position_yasis(t, checks, self) ==
    AddN(t, checks, AbsN(t, checks, self.x), Ret(self.y))

\* ManhattenDst for Position<N>: self.x.abs() + self.y.abs()
manhattendst_position(t, checks, self) ==
    AddN(t, checks, AbsN(t, checks, self.x), AbsN(t, checks, self.y))

\* ManhattenDst for (N, N): self.0.abs() + self.1.abs()
manhattendst_pair(t, checks, self) ==
    AddN(t, checks, AbsN(t, checks, self[1]), AbsN(t, checks, self[2]))

\* ManhattenDst for (N, N, N): self.0.abs() + self.1.abs() + self.2.abs()
manhattendst_triple(t, checks, self) ==
    AddN(t, checks,
         AddN(t, checks, AbsN(t, checks, self[1]), AbsN(t, checks, self[2])),
         AbsN(t, checks, self[3]))

\* manhattendst of p as a Position, of the tuple of its coordinates, or of a
\* triple that starts with them.
ManhattenDst ==
    /\ op = "manhattendst"
    /\ p' = p
    /\ \/ Called("manhattendst", [kind |-> "Position", self |-> <<p.x, p.y>>],
                 manhattendst_position(ntype, overflow_checks, p))
       \/ Called("manhattendst", [kind |-> "pair", self |-> <<p.x, p.y>>],
                 manhattendst_pair(ntype, overflow_checks, <<p.x, p.y>>))
       \/ \E c \in Coord(ntype) :
            Called("manhattendst", [kind |-> "triple", self |-> <<p.x, p.y, c>>],
                   manhattendst_triple(ntype, overflow_checks, <<p.x, p.y, c>>))

NextPos ==
    \/ Change
    \/ RevChange
    \/ Add
    \/ Sub
    \/ IsAdjecent
    \/ AbsPos
    \/ ManhattenDst

SpecPos == InitPos /\ [][NextPos]_vars

(***************************************************************************)
(* Absolute::abs on the integers themselves: every i8 and every u8.        *)
(***************************************************************************)
U8 == 0 .. 255

ValuesOf(t) == IF t = "i8" THEN I8 ELSE U8

InitAbs ==
    /\ op = "abs"
    /\ pc = "first"
    /\ result = NoResult
    /\ module \in Modules
    /\ ntype \in NumTypes
    /\ overflow_checks \in BOOLEAN
    /\ value \in ValuesOf(ntype)
    /\ tuple = <<>> /\ depth = 0
    /\ dir = "none" /\ turns = <<>> /\ faced = <<>>
    /\ p = <<>> /\ q = <<>> /\ calls = <<>>
    /\ ConvertIdle

\* value.abs()
AbsValue ==
    /\ pc = "first"
    /\ result' = BuiltN(ntype, overflow_checks, abs(ntype, value))
    /\ pc' = IF result' = Panicked THEN "panicked" ELSE "done"
    /\ UNCHANGED <<op, moveVars, convertVars>>

NextAbs == AbsValue

SpecAbs == InitAbs /\ [][NextAbs]_vars

(***************************************************************************)
(* Tuple ordering (lib.rs): sort_biggest, sort_smallest and MinMax for     *)
(* (T, T).  T is a type whose Ord looks at `key` and not at `id`, so that   *)
(* two elements can compare equal and still be told apart.                 *)
(***************************************************************************)
Keys == {1, 2, 3}
Ids  == {"one", "two"}
Elems == [key : Keys, id : Ids]

\* T's Ord: a < b and a > b
lt(a, b) == a.key < b.key
gt(a, b) == a.key > b.key

\* lib.rs, sort_biggest
sort_biggest(a, b) == IF gt(a, b) THEN <<a, b>> ELSE <<b, a>>

\* lib.rs, sort_smallest
sort_smallest(a, b) == IF gt(a, b) THEN <<b, a>> ELSE <<a, b>>

\* MinMax::minmax with the else branch taking self.1 twice.
minmax_secondtwice(self) ==
    IF lt(self[1], self[2]) THEN self ELSE <<self[2], self[2]>>

\* lib.rs, MinMax::minmax for (T, T)
minmax(self) ==
    IF lt(self[1], self[2]) THEN self ELSE <<self[2], self[1]>>

\* lib.rs, MinMax::maxmin for (T, T)
maxmin(self) ==
    IF gt(self[1], self[2]) THEN self ELSE <<self[2], self[1]>>

OrdOps == {"sort_biggest", "sort_smallest", "minmax", "maxmin"}

InitOrd ==
    /\ op \in OrdOps
    /\ pc = "first"
    /\ result = NoResult
    /\ tuple \in Elems \X Elems
    /\ module = "lib.rs" /\ ntype = "none" /\ overflow_checks = FALSE
    /\ dir = "none" /\ turns = <<>> /\ faced = <<>>
    /\ p = <<>> /\ q = <<>> /\ calls = <<>> /\ value = 0 /\ depth = 0
    /\ ConvertIdle

\* The call returns `given`.
Ordered(name, given) ==
    /\ op = name
    /\ pc = "first"
    /\ result' = Ret(given)
    /\ pc' = "done"
    /\ UNCHANGED <<op, moveVars, convertVars>>

SortBiggest == Ordered("sort_biggest", sort_biggest(tuple[1], tuple[2]))

SortSmallest == Ordered("sort_smallest", sort_smallest(tuple[1], tuple[2]))

MinMax == Ordered("minmax", minmax(tuple))

MaxMin == Ordered("maxmin", maxmin(tuple))

NextOrd ==
    \/ SortBiggest
    \/ SortSmallest
    \/ MinMax
    \/ MaxMin

SpecOrd == InitOrd /\ [][NextOrd]_vars

(***************************************************************************)
(* Display for Direction.  The body of fmt is write!(f, "{}", self): it    *)
(* formats self with "{}", which is a call of Display::fmt on the same     *)
(* value, and returns what that call returns.  No arm of fmt returns       *)
(* without that call, so a frame of fmt is only ever waiting for the next. *)
(* The stack holds MaxDepth frames; the call that needs one more aborts    *)
(* the program.                                                            *)
(***************************************************************************)
MaxDepth == 12

\* A caller about to format a Direction, as in format!("{}", d).
InitFmt ==
    /\ op = "fmt"
    /\ pc = "caller"
    /\ result = NoResult
    /\ module \in Modules
    /\ dir \in DirectionOf(module)
    /\ depth = 0
    /\ turns = <<>> /\ faced = <<>>
    /\ ntype = "none" /\ overflow_checks = FALSE
    /\ p = <<>> /\ q = <<>> /\ calls = <<>> /\ value = 0 /\ tuple = <<>>
    /\ ConvertIdle

\* One more frame of fmt.
Entered ==
    /\ depth' = depth + 1
    /\ pc' = "fmt"
    /\ UNCHANGED <<op, result, module, ntype, overflow_checks, dir, turns, faced,
                   p, q, calls, value, tuple, convertVars>>

\* The caller's "{}" calls Display::fmt.
FmtCall ==
    /\ pc = "caller"
    /\ Entered

\* write!(f, "{}", self) inside fmt calls Display::fmt on self again.
FmtWrite ==
    /\ pc = "fmt"
    /\ depth < MaxDepth
    /\ Entered

\* The call that finds the stack full.
StackOverflow ==
    /\ pc = "fmt"
    /\ depth >= MaxDepth
    /\ pc' = "aborted"
    /\ UNCHANGED <<op, result, moveVars, convertVars>>

NextFmt ==
    \/ FmtCall
    \/ FmtWrite
    \/ StackOverflow

\* The program keeps running while it can.
SpecFmt == InitFmt /\ [][NextFmt]_vars /\ WF_vars(NextFmt)

(***************************************************************************)
(* Properties of Direction, read off the recorded calls: call number k     *)
(* was made on faced[k] and gave After(k).                                 *)
(***************************************************************************)
After(k) == IF k < Len(turns) THEN faced[k + 1] ELSE dir

CallsMade == 1 .. Len(turns)

\* k .. k + m - 1 are m calls of the same method `name`.
RunOf(name, k, m) ==
    /\ k + m - 1 <= Len(turns)
    /\ \A j \in k .. (k + m - 1) : turns[j] = name

Opposite == [Up |-> "Down", Down |-> "Up", Left |-> "Right", Right |-> "Left"]

\* C11: reverse swaps Up with Down and Left with Right, and reversing twice
\* gives back each of the four directions Up, Down, Left, Right.
C11_ReverseInvolution ==
    \A k \in CallsMade :
        (turns[k] = "reverse" /\ faced[k] \in Direction) =>
            /\ After(k) = Opposite[faced[k]]
            /\ RunOf("reverse", k, 2) => After(k + 1) = faced[k]

C11_Witness ==
    /\ RunOf("reverse", 1, 2)
    /\ faced[1] = "Right"
    /\ faced[2] = "Left"
    /\ dir = "Right"

RightOf == [Up |-> "Right", Right |-> "Down", Down |-> "Left", Left |-> "Up"]
LeftOf  == [Up |-> "Left", Left |-> "Down", Down |-> "Right", Right |-> "Up"]

\* C12: turn_right follows Up -> Right -> Down -> Left -> Up and turn_left
\* follows Up -> Left -> Down -> Right -> Up; four turns the same way give
\* back the direction they started from, and one, two or three do not.
C12_TurnCycles ==
    \A k \in CallsMade :
        faced[k] \in Direction =>
            /\ turns[k] = "turn_right" => After(k) = RightOf[faced[k]]
            /\ turns[k] = "turn_left"  => After(k) = LeftOf[faced[k]]
            /\ \A name \in {"turn_right", "turn_left"} :
                 /\ RunOf(name, k, 4) => After(k + 3) = faced[k]
                 /\ \A m \in 1 .. 3 :
                      RunOf(name, k, m) => After(k + m - 1) # faced[k]

C12_Witness ==
    /\ RunOf("turn_right", 1, 4)
    /\ faced = <<"Down", "Left", "Up", "Right">>
    /\ dir = "Down"

Clockwise == <<"Up", "Right", "Down", "Left">>
ClockIndex(d) == CHOOSE j \in 1 .. 4 : Clockwise[j] = d
Count(name) == Cardinality({k \in CallsMade : turns[k] = name})

\* The direction `quarter` quarter turns clockwise of d.
Rotated(d, quarter) ==
    Clockwise[((ClockIndex(d) - 1 + quarter + 4 * Len(turns)) % 4) + 1]

\* C13: turn_right undoes turn_left and turn_left undoes turn_right; after
\* any sequence of turns the direction is the starting one rotated by
\* (right turns - left turns) mod 4 quarter turns.
C13_TurnsInverse ==
    /\ \A k \in CallsMade :
         faced[k] \in Direction =>
            /\ (turns[k] = "turn_left" /\ RunOf("turn_right", k + 1, 1))
                  => After(k + 1) = faced[k]
            /\ (turns[k] = "turn_right" /\ RunOf("turn_left", k + 1, 1))
                  => After(k + 1) = faced[k]
    /\ (/\ Len(turns) > 0
        /\ faced[1] \in Direction
        /\ Count("reverse") = 0)
          => dir = Rotated(faced[1], Count("turn_right") - Count("turn_left"))

C13_Witness ==
    /\ turns = <<"turn_left", "turn_right", "turn_right", "turn_right">>
    /\ faced[1] = "Up"
    /\ dir = "Down"

(***************************************************************************)
(* Properties of Position, read off the recorded calls: call number k was  *)
(* made with the arguments calls[k].arg and gave calls[k].out.             *)
(***************************************************************************)
PosCalls == 1 .. Len(calls)

\* The Position held after call number k.
PosAfter(k) == IF k < Len(calls) THEN calls[k + 1].arg.self ELSE p

\* What the machine gives for the integer pair <<a, b>> in this run.
Machine(a, b) == Built(ntype, overflow_checks, new(a, b))

\* No coordinate of the integer pair <<a, b>> overflows N.
NoOverflow(a, b) == InRange(ntype, a) /\ InRange(ntype, b)

\* C14: change(d, steps): Up subtracts steps from y, Down adds steps to y,
\* Right adds steps to x, Left subtracts steps from x, and the other
\* coordinate stays as it was.
C14_ChangeMoves ==
    \A k \in PosCalls :
        (calls[k].name = "change" /\ calls[k].arg.direction \in Direction) =>
            LET c == calls[k].arg
                d == c.direction
            IN  /\ d = "Up"    => calls[k].out = Machine(c.self.x, c.self.y - c.steps)
                /\ d = "Down"  => calls[k].out = Machine(c.self.x, c.self.y + c.steps)
                /\ d = "Right" => calls[k].out = Machine(c.self.x + c.steps, c.self.y)
                /\ d = "Left"  => calls[k].out = Machine(c.self.x - c.steps, c.self.y)
                /\ calls[k].out # Panicked =>
                     /\ PosAfter(k) = calls[k].out.val
                     /\ d \in {"Up", "Down"}    => PosAfter(k).x = c.self.x
                     /\ d \in {"Left", "Right"} => PosAfter(k).y = c.self.y

C14_Witness ==
    /\ Len(calls) = 1
    /\ calls[1].name = "change"
    /\ calls[1].arg = [self |-> new(0, 0), direction |-> "Up", steps |-> 1]
    /\ p = new(0, -1)

\* change of this run's copy of the code.
ChangeHere(self, direction, steps) ==
    IF module = "lib.rs" THEN lib_change(self, direction, steps)
    ELSE change(self, direction, steps)

\* C15: rev_change(d, k) does what change(d, k) does for Left and Right, and
\* what change(reverse(d), k) does for Up and Down: Up adds k to y, Down
\* subtracts k from y.
C15_RevChangeInvertsY ==
    \A k \in PosCalls :
        (calls[k].name = "rev_change" /\ calls[k].arg.direction \in Direction) =>
            LET c == calls[k].arg
                d == c.direction
                same == ChangeHere(c.self, d, c.steps)
                back == ChangeHere(c.self, Opposite[d], c.steps)
            IN  /\ d \in {"Left", "Right"} =>
                     calls[k].out = Machine(same.x, same.y)
                /\ d \in {"Up", "Down"} =>
                     calls[k].out = Machine(back.x, back.y)
                /\ d = "Up"   => calls[k].out = Machine(c.self.x, c.self.y + c.steps)
                /\ d = "Down" => calls[k].out = Machine(c.self.x, c.self.y - c.steps)
                /\ calls[k].out # Panicked => PosAfter(k) = calls[k].out.val

C15_Witness ==
    /\ Len(calls) = 1
    /\ calls[1].name = "rev_change"
    /\ calls[1].arg = [self |-> new(0, 0), direction |-> "Up", steps |-> 1]
    /\ p = new(0, 1)

\* Call number k is change(d, steps) with no coordinate overflowing.
ChangeFits(k) ==
    /\ calls[k].name = "change"
    /\ calls[k].arg.direction \in Direction
    /\ LET c == calls[k].arg
           dx == IF c.direction = "Right" THEN c.steps
                 ELSE IF c.direction = "Left" THEN 0 - c.steps ELSE 0
           dy == IF c.direction = "Down" THEN c.steps
                 ELSE IF c.direction = "Up" THEN 0 - c.steps ELSE 0
       IN  NoOverflow(c.self.x + dx, c.self.y + dy)

\* C16: over a signed type, with k >= 0 and no coordinate overflowing,
\* change(d, k) followed by change(reverse(d), k) gives back the Position
\* it started from, both coordinates.
C16_ChangeRoundTrip ==
    \A k \in PosCalls :
        (/\ ntype = "i8"
         /\ k < Len(calls)
         /\ ChangeFits(k)
         /\ ChangeFits(k + 1)
         /\ calls[k].arg.steps >= 0
         /\ calls[k + 1].arg.steps = calls[k].arg.steps
         /\ calls[k + 1].arg.direction = Opposite[calls[k].arg.direction])
            => /\ calls[k + 1].out = Ret(calls[k].arg.self)
               /\ PosAfter(k + 1) = calls[k].arg.self

C16_Witness ==
    /\ Len(calls) = 2
    /\ ntype = "i8"
    /\ calls[1].name = "change"
    /\ calls[1].arg = [self |-> new(1, -1), direction |-> "Left", steps |-> 127]
    /\ calls[2].name = "change"
    /\ calls[2].arg = [self |-> new(-126, -1), direction |-> "Right", steps |-> 127]
    /\ p = new(1, -1)

\* The magnitude of the integer n.
Mag(n) == IF n < 0 THEN 0 - n ELSE n

\* The two Positions differ by (1,0), (0,1) or (1,1) in magnitude.
Adjacent(a, b) ==
    <<Mag(a.x - b.x), Mag(a.y - b.y)>> \in {<<1, 0>>, <<0, 1>>, <<1, 1>>}

\* The difference n is a value of N other than N's most negative one.
PlainDifference(n) == MinOf(ntype) < n /\ n <= MaxOf(ntype)

\* C17 (as stated): p.is_adjecent(q) is true if and only if
\* (|p.x - q.x|, |p.y - q.y|) is one of (1,0), (0,1), (1,1).
C17_AsStated ==
    \A k \in PosCalls :
        (calls[k].name = "is_adjecent" /\ calls[k].out # Panicked) =>
            calls[k].out = Ret(Adjacent(calls[k].arg.self, calls[k].arg.other))

\* C17: when p.x - q.x and p.y - q.y are values of the coordinate type other
\* than its most negative one, p.is_adjecent(q) returns, and it is true if
\* and only if (|p.x - q.x|, |p.y - q.y|) is one of (1,0), (0,1), (1,1): false
\* for q = p, false when a coordinate differs by 2 or more, and the same
\* for q.is_adjecent(p).
C17_AdjacentInRange ==
    \A k \in PosCalls :
        LET a == calls[k].arg.self
            b == calls[k].arg.other
        IN  (/\ calls[k].name = "is_adjecent"
             /\ PlainDifference(a.x - b.x)
             /\ PlainDifference(a.y - b.y)) =>
                /\ calls[k].out = Ret(Adjacent(a, b))
                /\ a = b => calls[k].out = Ret(FALSE)
                /\ (Mag(a.x - b.x) >= 2 \/ Mag(a.y - b.y) >= 2)
                      => calls[k].out = Ret(FALSE)
                /\ \A j \in PosCalls :
                     (calls[j].arg.self = b /\ calls[j].arg.other = a)
                        => calls[j].out = calls[k].out

C17_Witness ==
    /\ Len(calls) = 2
    /\ calls[1].name = "is_adjecent"
    /\ calls[1].arg = [self |-> new(0, 0), other |-> new(1, 1)]
    /\ calls[2].arg = [self |-> new(1, 1), other |-> new(0, 0)]
    /\ calls[1].out = Ret(TRUE)
    /\ calls[2].out = Ret(TRUE)

\* Call number k is + or - .
IsBinOp(k) == calls[k].name \in {"+", "-"}

\* The integers a + or - call works out, before the machine stores them.
Exact(k) ==
    LET a == calls[k].arg.self
        b == calls[k].arg.other
    IN  IF calls[k].name = "+" THEN new(a.x + b.x, a.y + b.y)
        ELSE new(a.x - b.x, a.y - b.y)

BinOpFits(k) == IsBinOp(k) /\ NoOverflow(Exact(k).x, Exact(k).y)

\* C18: + and - work on each coordinate by itself, whichever operands are
\* owned or borrowed; without overflow (p + q) - q = p and p + q = q + p.
C18_BinOps ==
    \A k \in PosCalls :
        IsBinOp(k) =>
            /\ calls[k].out = Machine(Exact(k).x, Exact(k).y)
            /\ (/\ k < Len(calls)
                /\ calls[k].name = "+"
                /\ calls[k + 1].name = "-"
                /\ BinOpFits(k)
                /\ BinOpFits(k + 1)
                /\ calls[k + 1].arg.self = calls[k].out.val
                /\ calls[k + 1].arg.other = calls[k].arg.other)
                  => calls[k + 1].out = Ret(calls[k].arg.self)
            /\ \A j \in PosCalls :
                 (/\ calls[k].name = "+"
                  /\ calls[j].name = "+"
                  /\ BinOpFits(k)
                  /\ calls[j].arg.self = calls[k].arg.other
                  /\ calls[j].arg.other = calls[k].arg.self)
                    => calls[j].out = calls[k].out

C18_Witness ==
    /\ op = "binops"
    /\ Len(calls) = 2
    /\ calls[1] = [name |-> "+",
                   arg |-> [form |-> "val_ref", self |-> new(0, -1),
                            other |-> new(1, 1)],
                   out |-> Ret(new(1, 0))]
    /\ calls[2] = [name |-> "-",
                   arg |-> [form |-> "ref_val", self |-> new(1, 0),
                            other |-> new(1, 1)],
                   out |-> Ret(new(0, -1))]

\* C20 (as stated): Position::abs is componentwise and idempotent, and for
\* a signed coordinate type abs(p).x >= 0 and abs(p).y >= 0.
C20_AsStated ==
    \A k \in PosCalls :
        (calls[k].name = "abs" /\ calls[k].out # Panicked) =>
            /\ (k < Len(calls) /\ calls[k + 1].out # Panicked)
                  => calls[k + 1].out = calls[k].out
            /\ ntype = "i8" =>
                  calls[k].out.val.x >= 0 /\ calls[k].out.val.y >= 0

\* C20: Position::abs is componentwise, and idempotent where it returns;
\* for a signed coordinate type abs(p) returns with abs(p).x >= 0 and
\* abs(p).y >= 0 unless a coordinate of p is the type's most negative value.
C20_PositionAbs ==
    \A k \in PosCalls :
        calls[k].name = "abs" =>
            LET a == calls[k].arg.self IN
            /\ ntype = "i8" => calls[k].out = Machine(Mag(a.x), Mag(a.y))
            /\ ntype = "u8" => calls[k].out = Ret(a)
            /\ (/\ k < Len(calls)
                /\ calls[k].out # Panicked
                /\ calls[k + 1].out # Panicked)
                  => calls[k + 1].out = calls[k].out
            /\ (ntype = "i8" /\ a.x # MinOf(ntype) /\ a.y # MinOf(ntype))
                  => /\ calls[k].out # Panicked
                     /\ calls[k].out.val.x >= 0
                     /\ calls[k].out.val.y >= 0

C20_Witness ==
    /\ Len(calls) = 2
    /\ ntype = "i8"
    /\ calls[1].name = "abs"
    /\ calls[1].arg.self = new(-1, 127)
    /\ calls[2].arg.self = new(1, 127)
    /\ p = new(1, 127)

\* C19: for every signed n other than the most negative value of its width
\* abs(n) >= 0 and abs(n) is the magnitude of n; for every unsigned n
\* abs(n) = n.
C19_AbsMagnitude ==
    pc # "first" =>
        /\ (ntype = "i8" /\ value # MinOf(ntype)) =>
              /\ result = Ret(Mag(value))
              /\ result.val >= 0
        /\ ntype = "u8" => result = Ret(value)

C19_Witness ==
    /\ pc = "done"
    /\ ntype = "i8"
    /\ value = -127
    /\ result = Ret(127)

\* The sum of the magnitudes of the integers in the tuple s.
RECURSIVE SumMag(_)
SumMag(s) == IF s = <<>> THEN 0 ELSE Mag(Head(s)) + SumMag(Tail(s))

\* No component of the tuple s is N's most negative value.
NoMinimum(s) == \A j \in 1 .. Len(s) : s[j] # MinOf(ntype) \/ ntype = "u8"

\* C21 (as stated): manhattendst returns |x| + |y| for a Position and for
\* (N, N), and |a| + |b| + |c| for (N, N, N).
C21_AsStated ==
    \A k \in PosCalls :
        (calls[k].name = "manhattendst" /\ calls[k].out # Panicked) =>
            calls[k].out = Ret(SumMag(calls[k].arg.self))

\* C21: when no component is N's most negative value and the sum of the
\* magnitudes is a value of N, manhattendst returns that sum: |x| + |y| for
\* a Position and for (N, N), |a| + |b| + |c| for (N, N, N); a Position, the
\* tuple of its coordinates and the triple of them and 0 give the same.
C21_ManhattenDst ==
    \A k \in PosCalls :
        calls[k].name = "manhattendst" =>
            LET s == calls[k].arg.self IN
            /\ (NoMinimum(s) /\ InRange(ntype, SumMag(s)))
                  => calls[k].out = Ret(SumMag(s))
            /\ \A j \in PosCalls :
                 /\ calls[j].arg.self = s => calls[j].out = calls[k].out
                 /\ calls[j].arg.self = s \o <<0>>
                       => calls[j].out = calls[k].out

C21_Witness ==
    /\ op = "manhattendst"
    /\ Len(calls) = 2
    /\ calls[1].arg = [kind |-> "Position", self |-> <<-1, 1>>]
    /\ calls[2].arg = [kind |-> "pair", self |-> <<-1, 1>>]
    /\ calls[1].out = Ret(2)
    /\ calls[2].out = Ret(2)

\* The pair r holds the two elements of the pair t, each once.
PermutationOf(r, t) == r = t \/ r = <<t[2], t[1]>>

\* C22: minmax((a, b)) has its first element <= its second, maxmin((a, b))
\* has its first element >= its second, and each holds exactly the two
\* elements it was given.
C22_MinMaxSorted ==
    pc = "done" =>
        /\ op = "minmax" =>
              /\ result.val[1].key <= result.val[2].key
              /\ PermutationOf(result.val, tuple)
        /\ op = "maxmin" =>
              /\ result.val[1].key >= result.val[2].key
              /\ PermutationOf(result.val, tuple)

C22_Witness ==
    /\ op = "minmax"
    /\ pc = "done"
    /\ tuple = <<[key |-> 3, id |-> "one"], [key |-> 1, id |-> "two"]>>
    /\ result = Ret(<<[key |-> 1, id |-> "two"], [key |-> 3, id |-> "one"]>>)

\* C23: when the two elements compare equal but can be told apart,
\* minmax((a, b)), maxmin((a, b)) and sort_biggest(a, b) each return them in
\* their original order (a, b).
C23_TiesKeepOrder ==
    (/\ pc = "done"
     /\ op \in {"minmax", "maxmin", "sort_biggest"}
     /\ tuple[1].key = tuple[2].key
     /\ tuple[1] # tuple[2])
        => result = Ret(tuple)

\* C24: in lib.rs, whose Direction has the variant Init, turn_right(Init) is
\* Right, turn_left(Init) is Left, reverse(Init) panics instead of returning
\* a direction, and no turn_right, turn_left or reverse call returns Init.
C24_InitVariant ==
    module = "lib.rs" =>
        \A k \in CallsMade :
            /\ (turns[k] = "turn_right" /\ faced[k] = "Init") => After(k) = "Right"
            /\ (turns[k] = "turn_left" /\ faced[k] = "Init") => After(k) = "Left"
            /\ (turns[k] = "reverse" /\ faced[k] = "Init")
                  => (k = Len(turns) /\ pc = "panicked")
            /\ (k < Len(turns) \/ pc # "panicked") => After(k) # "Init"

C24_Witness ==
    /\ module = "lib.rs"
    /\ turns = <<"turn_right", "turn_left", "turn_left", "reverse">>
    /\ faced = <<"Init", "Right", "Up", "Left">>
    /\ dir = "Right"
    /\ pc = "turning"

\* The slots of arr that hold an element.
Populated == {k \in DOMAIN arr : arr[k] # Uninit}

\* What the claim says of `filled` apart from the populated slots: it is at
\* most N, a slot is written only while it is empty, and the final test
\* `filled != N` is true exactly when the source held fewer than N items.
FilledInStep ==
    /\ filled <= num
    /\ pc = "write" => arr[dstIdx - 1] = Uninit
    /\ pc = "check" => (NotAllFilled(filled, num) <=> Len(src) < num)

\* C25 (as stated): at every point filled <= N, the populated slots are
\* exactly 0 .. filled - 1, each slot is written at most once, and the final
\* test is true exactly when the source yielded fewer than N items.
C25_AsStated ==
    op \in Collectors =>
        /\ FilledInStep
        /\ Populated = 0 .. (filled - 1)

\* C25: the same at every point but one: between the write and the
\* `filled += 1` of one iteration slot number `filled` is populated too.
C25_FilledCounter ==
    op \in Collectors =>
        /\ FilledInStep
        /\ pc # "incr" => Populated = 0 .. (filled - 1)
        /\ pc = "incr" => Populated = 0 .. filled

C25_Witness ==
    /\ op \in Collectors
    /\ pc = "check"
    /\ num = 3
    /\ Len(src) = 2
    /\ filled = 2
    /\ Populated = {0, 1}

\* C26: try_convert_into_slice(buf) looks at the first buf.len() items of
\* the source only: when the source has that many and each of them parses,
\* the result is Ok(buf.len()) whatever comes after them, and no item at a
\* position >= buf.len() is pulled from the source or parsed.
C26_OnlyFirstBufLen ==
    op = "try_convert_into_slice" =>
        /\ pos <= SliceLen(slice)
        /\ (/\ pc = "done"
            /\ Len(src) >= SliceLen(slice)
            /\ \A k \in 0 .. (SliceLen(slice) - 1) : ~Bad(src, k))
              => result = Ok(SliceLen(slice))

C26_Witness ==
    /\ op = "try_convert_into_slice"
    /\ pc = "done"
    /\ SliceLen(slice) = 2
    /\ Len(src) = 3
    /\ ~Bad(src, 0)
    /\ ~Bad(src, 1)
    /\ Bad(src, 2)
    /\ pos = 2
    /\ result = Ok(2)

\* C27: formatting a Direction through Display terminates for each variant:
\* the call of fmt returns to its caller.
C27_FmtTerminates == <>(pc = "returned" /\ depth = 0)

====
